---- MODULE Spec2Model ----
(***************************************************************************)
(* The futarchy pallet (pallets/futarchy/src/lib.rs): a registry of        *)
(* prediction markets with two dispatchable calls, create_market and       *)
(* resolve_market, over the storage items Markets and MarketCount, the     *)
(* reservable-currency ledger and the host runtime's block number and      *)
(* event log.                                                              *)
(***************************************************************************)
EXTENDS Integers, Sequences, FiniteSets, TLC

(***************************************************************************)
(* Bounds of the model.                                                    *)
(***************************************************************************)
\* The chain height runs from 1 to MaxBlock.
MaxBlock == 2
\* The largest free balance an account is endowed with at genesis.
MaxBalance == 4

(***************************************************************************)
(* Configuration (trait Config).                                           *)
(***************************************************************************)
\* T::MarketCreationDeposit::get(): the value is the runtime's choice.
MarketCreationDeposit == 2

(***************************************************************************)
(* Types.                                                                  *)
(***************************************************************************)
AccountId == {"A", "B"}

MarketType == {"Binary", "Scalar", "Categorical"}

MarketStatus == {"Created", "Active", "Resolved", "Cancelled"}

BlockNumber == 1..MaxBlock

\* Option<T>: None is the empty sequence, Some(x) the one-element sequence.
None == <<>>

Some(x) == <<x>>

is_some(o) == Len(o) = 1

\* DispatchResult. An error names the pallet that raised it and its variant.
Ok == <<"Ok">>

Err(module, error) == <<"Err", module, error>>

\* decl_error!: the three variants of this pallet's Error.
Error == {"MarketDoesNotExist", "MarketNotResolvable", "InsufficientFunds"}

ModuleError(e) == Err("Futarchy", e)

\* frame_system's error of ensure_signed.
BadOrigin == Err("System", "BadOrigin")

\* The origins a call can be dispatched with.
Signed(who) == <<"Signed", who>>

Origin == {Signed(a) : a \in AccountId} \cup {<<"None">>}

(***************************************************************************)
(* Identifier derivation:                                                  *)
(*   (block_number, who, market_type).using_encoded(T::Hashing::hash)      *)
(***************************************************************************)
\* The variant index the derived Encode gives each MarketType.
TypeIndex(t) ==
    CASE t = "Binary" -> 0
      [] t = "Scalar" -> 1
      [] t = "Categorical" -> 2

\* The fixed-width encoding of an account id, here its index.
AccountIndex(a) ==
    CASE a = "A" -> 0
      [] a = "B" -> 1

\* The encoding of a tuple is the concatenation of its fields' encodings.
Encode(b, who, t) == <<b>> \o <<AccountIndex(who)>> \o <<TypeIndex(t)>>

\* T::Hashing::hash, idealised as collision-free on the encodings of the
\* model: the digest reads the three fixed-width fields as one number.
Hashing(enc) ==
    (enc[1] * Cardinality(AccountId) + enc[2]) * Cardinality(MarketType) + enc[3]

\* (a variant of MarketIdInput that leaves the market type out of the tuple)
MarketIdInput_NoType(b, who, t) == Encode(b, who, "Binary")

\* The tuple create_market hashes.
MarketIdInput(b, who, t) == Encode(b, who, t)

MarketId(b, who, t) == Hashing(MarketIdInput(b, who, t))

\* The digests create_market can derive in block b.
DerivableIds(b) == {MarketId(b, who, t) : who \in AccountId, t \in MarketType}

\* A digest no call of the model derives (that of block 0, account A, Binary).
UnusedId == MarketId(0, "A", "Binary")

(***************************************************************************)
(* State.                                                                  *)
(***************************************************************************)
VARIABLES
    block_number,      \* system::Module::<T>::block_number()
    Markets,           \* storage map T::Hash => Option<PredictionMarket>
    MarketCount,       \* storage value u64
    free_balance,      \* the ledger: free balance of each account
    reserved_balance,  \* the ledger: reserved balance of each account
    events,            \* the events deposited so far, oldest first
    dispatched         \* the call dispatched last and its DispatchResult

vars == <<block_number, Markets, MarketCount, free_balance, reserved_balance,
          events, dispatched>>

\* (a variant of markets that reads a missing key as a default record)
markets_OrDefault(id) ==
    IF id \in DOMAIN Markets
    THEN Some(Markets[id])
    ELSE Some([id               |-> id,
               creator          |-> "A",
               market_type      |-> "Binary",
               status           |-> "Created",
               total_liquidity  |-> 0,
               creation_block   |-> 0,
               resolution_block |-> None])

\* Markets::<T>::get(id): the record, or None.
markets(id) == IF id \in DOMAIN Markets THEN Some(Markets[id]) ELSE None

\* (a variant of Insert that writes the whole map instead of one key)
Insert_Only(store, id, market) == [k \in {id} |-> market]

\* (a variant of Insert that keeps the record already stored under the key)
Insert_IfAbsent(store, id, market) ==
    [k \in DOMAIN store \cup {id} |-> IF k \in DOMAIN store THEN store[k] ELSE market]

\* Markets::<T>::insert(id, market): an upsert.
Insert(store, id, market) ==
    [k \in DOMAIN store \cup {id} |-> IF k = id THEN market ELSE store[k]]

\* MarketCount::get().
market_count == MarketCount

\* T::Hash, as far as resolve_market is called with it: the key of every stored
\* record, every identifier create_market can derive in the current block
\* (stored or not), and one that is never derived.
Hash == DOMAIN Markets \cup DerivableIds(block_number) \cup {UnusedId}

\* ensure_signed(origin).
ensure_signed(origin) ==
    IF origin[1] = "Signed"
    THEN [result |-> Ok, who |-> Some(origin[2])]
    ELSE [result |-> BadOrigin, who |-> None]

\* T::Currency::reserve(who, amount): moves amount from free to reserved when
\* the free balance covers it, and otherwise fails with the ledger's own error
\* and changes nothing.
reserve(who, amount) ==
    IF free_balance[who] >= amount
    THEN [result   |-> Ok,
          free     |-> [free_balance EXCEPT ![who] = @ - amount],
          reserved |-> [reserved_balance EXCEPT ![who] = @ + amount]]
    ELSE [result   |-> Err("Balances", "InsufficientBalance"),
          free     |-> free_balance,
          reserved |-> reserved_balance]

\* (a variant of DepositReserved that drops the result of reserve)
DepositReserved_Ignored(reserved) == TRUE

\* The ? after reserve: create_market goes on only when reserve returned Ok.
DepositReserved(reserved) == reserved.result = Ok

\* (a variant of NewMarket that books the deposit as liquidity)
NewMarket_Liquidity(market_id, who, market_type) ==
    [id               |-> market_id,
     creator          |-> who,
     market_type      |-> market_type,
     status           |-> "Created",
     total_liquidity  |-> MarketCreationDeposit,
     creation_block   |-> block_number,
     resolution_block |-> None]

\* (a variant of NewMarket that opens the market at once)
NewMarket_Active(market_id, who, market_type) ==
    [id               |-> market_id,
     creator          |-> who,
     market_type      |-> market_type,
     status           |-> "Active",
     total_liquidity  |-> 0,
     creation_block   |-> block_number,
     resolution_block |-> None]

\* (a variant of NewMarket that leaves the id field at the zero digest)
NewMarket_NoId(market_id, who, market_type) ==
    [id               |-> UnusedId,
     creator          |-> who,
     market_type      |-> market_type,
     status           |-> "Created",
     total_liquidity  |-> 0,
     creation_block   |-> block_number,
     resolution_block |-> None]

\* The record create_market builds.
NewMarket(market_id, who, market_type) ==
    [id               |-> market_id,
     creator          |-> who,
     market_type      |-> market_type,
     status           |-> "Created",
     total_liquidity  |-> 0,
     creation_block   |-> block_number,
     resolution_block |-> None]

\* The call record kept in dispatched.
Call(name, origin, market_type, market_id, result) ==
    [call        |-> name,
     origin      |-> origin,
     market_type |-> market_type,
     market_id   |-> market_id,
     result      |-> result]

NoCall == Call("none", <<"None">>, None, None, Ok)

(***************************************************************************)
(* The dispatchable calls.                                                 *)
(***************************************************************************)
\* (a variant of create_market that keeps in MarketCount the number of markets
\* of the current block)
create_market_BlockCount(origin, market_type) ==
    LET signed == ensure_signed(origin)
        who == signed.who[1]
        reserved == reserve(who, MarketCreationDeposit)
        market_id == MarketId(block_number, who, market_type)
    IN
    IF signed.result # Ok \/ ~DepositReserved(reserved)
    THEN /\ dispatched' = Call("create_market", origin, Some(market_type), None,
                               IF signed.result # Ok THEN signed.result
                               ELSE reserved.result)
         /\ UNCHANGED <<block_number, Markets, MarketCount, free_balance,
                        reserved_balance, events>>
    ELSE /\ free_balance' = reserved.free
         /\ reserved_balance' = reserved.reserved
         /\ Markets' = Insert(Markets, market_id,
                              NewMarket(market_id, who, market_type))
         /\ MarketCount' =
                Cardinality({k \in DOMAIN Markets' :
                                 Markets'[k].creation_block = block_number})
         /\ events' = Append(events, <<"MarketCreated", who, market_id>>)
         /\ dispatched' = Call("create_market", origin, Some(market_type),
                               Some(market_id), Ok)
         /\ UNCHANGED block_number

create_market(origin, market_type) ==
    LET signed == ensure_signed(origin) IN
    IF signed.result # Ok
    THEN /\ dispatched' = Call("create_market", origin, Some(market_type), None,
                               signed.result)
         /\ UNCHANGED <<block_number, Markets, MarketCount, free_balance,
                        reserved_balance, events>>
    ELSE
      LET who == signed.who[1]
          deposit == MarketCreationDeposit
          reserved == reserve(who, deposit)
      IN
      IF ~DepositReserved(reserved)
      THEN /\ dispatched' = Call("create_market", origin, Some(market_type),
                                 None, reserved.result)
           /\ UNCHANGED <<block_number, Markets, MarketCount, free_balance,
                          reserved_balance, events>>
      ELSE
        LET market_id == MarketId(block_number, who, market_type)
            market == NewMarket(market_id, who, market_type)
        IN
        /\ free_balance' = reserved.free
        /\ reserved_balance' = reserved.reserved
        /\ Markets' = Insert(Markets, market_id, market)
        /\ MarketCount' = MarketCount   \* the handler never writes MarketCount
        /\ events' = Append(events, <<"MarketCreated", who, market_id>>)
        /\ dispatched' = Call("create_market", origin, Some(market_type),
                              Some(market_id), Ok)
        /\ UNCHANGED block_number

\* (a variant of Resolvable that also accepts a market not yet activated)
Resolvable_NotYetActive(market) == market.status \in {"Created", "Active"}

\* (a variant of Resolvable that only refuses a market already resolved)
Resolvable_Unresolved(market) == market.status # "Resolved"

\* The ensure! of resolve_market: whether it accepts a record.
Resolvable(market) == market.status = "Active"

\* (a variant of ResolvedMarket that leaves resolution_block as it was)
ResolvedMarket_NoBlock(market) == [market EXCEPT !.status = "Resolved"]

\* (a variant of ResolvedMarket that stamps the block of creation)
ResolvedMarket_AtCreation(market) ==
    [market EXCEPT !.status = "Resolved",
                   !.resolution_block = Some(market.creation_block)]

\* (a variant of ResolvedMarket that also restamps the block of creation)
ResolvedMarket_Restamp(market) ==
    [market EXCEPT !.status = "Resolved",
                   !.creation_block = block_number,
                   !.resolution_block = Some(block_number)]

\* The record resolve_market writes back.
ResolvedMarket(market) ==
    [market EXCEPT !.status = "Resolved",
                   !.resolution_block = Some(block_number)]

\* (a variant of resolve_market_outcome that lets only the creator resolve)
resolve_market_outcome_CreatorOnly(origin, market_id) ==
    LET signed == ensure_signed(origin)
        found == markets(market_id)
        result ==
            IF signed.result # Ok THEN signed.result
            ELSE IF ~is_some(found) THEN ModuleError("MarketDoesNotExist")
            ELSE IF ~Resolvable(found[1]) \/ found[1].creator # signed.who[1]
                 THEN ModuleError("MarketNotResolvable")
            ELSE Ok
    IN
    [result           |-> result,
     Markets          |-> IF result = Ok
                          THEN Insert(Markets, market_id, ResolvedMarket(found[1]))
                          ELSE Markets,
     events           |-> IF result = Ok
                          THEN Append(events, <<"MarketResolved", signed.who[1],
                                                market_id>>)
                          ELSE events,
     MarketCount      |-> MarketCount,
     free_balance     |-> free_balance,
     reserved_balance |-> reserved_balance]

\* What resolve_market returns and leaves behind, as a function of the state,
\* the origin and the identifier: the DispatchResult, and the storage, ledger
\* and events after the call.
resolve_market_outcome(origin, market_id) ==
    LET signed == ensure_signed(origin)
        found == markets(market_id)
        result ==
            IF signed.result # Ok THEN signed.result
            ELSE IF ~is_some(found) THEN ModuleError("MarketDoesNotExist")
            ELSE IF ~Resolvable(found[1]) THEN ModuleError("MarketNotResolvable")
            ELSE Ok
    IN
    [result           |-> result,
     Markets          |-> IF result = Ok
                          THEN Insert(Markets, market_id, ResolvedMarket(found[1]))
                          ELSE Markets,
     events           |-> IF result = Ok
                          THEN Append(events, <<"MarketResolved", signed.who[1],
                                                market_id>>)
                          ELSE events,
     MarketCount      |-> MarketCount,
     free_balance     |-> free_balance,
     reserved_balance |-> reserved_balance]

resolve_market(origin, market_id) ==
    LET outcome == resolve_market_outcome(origin, market_id) IN
    /\ dispatched' = Call("resolve_market", origin, None, Some(market_id),
                          outcome.result)
    /\ Markets' = outcome.Markets
    /\ events' = outcome.events
    /\ MarketCount' = outcome.MarketCount
    /\ free_balance' = outcome.free_balance
    /\ reserved_balance' = outcome.reserved_balance
    /\ UNCHANGED block_number

\* The host runtime starts the next block.
next_block ==
    /\ block_number < MaxBlock
    /\ block_number' = block_number + 1
    /\ dispatched' = NoCall
    /\ UNCHANGED <<Markets, MarketCount, free_balance, reserved_balance, events>>

(***************************************************************************)
(* Genesis: an empty store, a zero counter, nothing reserved, no event.    *)
(***************************************************************************)
EmptyStore == [k \in {} |-> 0]

\* The balances of the genesis block: A can pay for several markets, B for one.
Endowment(a) == IF a = "A" THEN MaxBalance ELSE MarketCreationDeposit + 1

Init ==
    /\ block_number = 1
    /\ Markets = EmptyStore
    /\ MarketCount = 0
    /\ free_balance = [a \in AccountId |-> Endowment(a)]
    /\ reserved_balance = [a \in AccountId |-> 0]
    /\ events = <<>>
    /\ dispatched = NoCall

Next ==
    \/ \E origin \in Origin, market_type \in MarketType :
           create_market(origin, market_type)
    \/ \E origin \in Origin, market_id \in Hash :
           resolve_market(origin, market_id)
    \/ next_block

Spec == Init /\ [][Next]_vars

(***************************************************************************)
(* The calls on a store that already holds a market in any state of the    *)
(* lifecycle. MarketStatus declares Active and Cancelled, and              *)
(* resolve_market reads them, but no call of this pallet writes them: a    *)
(* record reaches them only through code outside this file. To decide what *)
(* the handlers do with such records, this second specification starts     *)
(* from the genesis store or from a store holding one record, a Binary     *)
(* market created by A in block 1, in any status, with its                 *)
(* resolution_block set exactly when it is Resolved, its deposit reserved   *)
(* from A and its MarketCreated event deposited. Every behaviour of Spec   *)
(* is a behaviour of SpecStore.                                            *)
(***************************************************************************)
StoredMarket(status) ==
    [id               |-> MarketId(1, "A", "Binary"),
     creator          |-> "A",
     market_type      |-> "Binary",
     status           |-> status,
     total_liquidity  |-> 0,
     creation_block   |-> 1,
     resolution_block |-> IF status = "Resolved" THEN Some(1) ELSE None]

OneRecordStores ==
    {Insert(EmptyStore, MarketId(1, "A", "Binary"), StoredMarket(st)) :
        st \in MarketStatus}

\* The deposits reserved for the records of a store, per creator.
DepositsOf(store, a) ==
    MarketCreationDeposit * Cardinality({k \in DOMAIN store : store[k].creator = a})

\* The MarketCreated event of the record of a store of InitStore.
CreationEventsOf(store) ==
    IF DOMAIN store = {}
    THEN <<>>
    ELSE <<<<"MarketCreated", "A", MarketId(1, "A", "Binary")>>>>

InitStore ==
    /\ block_number = 1
    /\ Markets \in {EmptyStore} \cup OneRecordStores
    /\ MarketCount = 0
    /\ free_balance = [a \in AccountId |-> Endowment(a) - DepositsOf(Markets, a)]
    /\ reserved_balance = [a \in AccountId |-> DepositsOf(Markets, a)]
    /\ events = CreationEventsOf(Markets)
    /\ dispatched = NoCall

SpecStore == InitStore /\ [][Next]_vars

(***************************************************************************)
(* Properties.                                                             *)
(*                                                                         *)
(* dispatched' describes the call a step makes: a step that changes the    *)
(* state and ends with dispatched'.call = "create_market" is a             *)
(* create_market call, and likewise for resolve_market (next_block resets  *)
(* dispatched). The unprimed variables of a step are the state before the  *)
(* call. A caller is the account of a signed origin.                       *)
(***************************************************************************)
IsSigned(origin) == origin[1] = "Signed"

\* The step is a call of `name` by a signed caller.
CallBy(name) == dispatched'.call = name /\ IsSigned(dispatched'.origin)

\* The number of create_market calls that have returned Ok: each deposits
\* one MarketCreated event, and nothing else deposits one.
SuccessfulCreations ==
    Cardinality({i \in 1..Len(events) : events[i][1] = "MarketCreated"})

\* What a failed call must leave alone.
StoreAndLedgerUnchanged ==
    UNCHANGED <<Markets, MarketCount, free_balance, reserved_balance, events>>

\* C1: in every reachable state MarketCount equals the number of create_market
\* calls that have succeeded since genesis (each success adds exactly 1).
C1_CountEqualsCreations == market_count = SuccessfulCreations

\* C2: create_market inserts a record only when the reservation of
\* MarketCreationDeposit from the caller has succeeded (the caller's free
\* balance covered it and the step moves it to the reserved balance); when the
\* reservation fails the call is refused and Markets and MarketCount are as
\* before.
C2_InsertOnlyAfterReserve ==
    [][CallBy("create_market") =>
         LET who == dispatched'.origin[2] IN
         /\ (dispatched'.result = Ok \/ Markets' # Markets) =>
               /\ free_balance[who] >= MarketCreationDeposit
               /\ free_balance'[who] = free_balance[who] - MarketCreationDeposit
               /\ reserved_balance'[who] =
                      reserved_balance[who] + MarketCreationDeposit
         /\ free_balance[who] < MarketCreationDeposit =>
               /\ dispatched'.result # Ok
               /\ DOMAIN Markets' = DOMAIN Markets
               /\ UNCHANGED <<Markets, MarketCount>>]_vars

\* C2's case: a create_market refused by the ledger, on a store holding records.
C2_Witness ==
    /\ dispatched.call = "create_market"
    /\ dispatched.result = Err("Balances", "InsufficientBalance")
    /\ DOMAIN Markets # {}

\* C3: for every id whose stored record is Created, Resolved or Cancelled,
\* resolve_market(id) by any caller fails with MarketNotResolvable and leaves
\* Markets, MarketCount, the ledger and the events unchanged.
C3_NotResolvable ==
    [][(/\ CallBy("resolve_market")
        /\ dispatched'.market_id[1] \in DOMAIN Markets
        /\ Markets[dispatched'.market_id[1]].status
               \in {"Created", "Resolved", "Cancelled"})
       => /\ dispatched'.result = ModuleError("MarketNotResolvable")
          /\ StoreAndLedgerUnchanged]_vars

\* C3's case: a market resolved by resolve_market, and a second resolve_market
\* on it refused.
C3_Witness ==
    /\ dispatched.call = "resolve_market"
    /\ IsSigned(dispatched.origin)
    /\ dispatched.result = ModuleError("MarketNotResolvable")
    /\ dispatched.market_id[1] \in DOMAIN Markets
    /\ Markets[dispatched.market_id[1]].status = "Resolved"
    /\ \E i \in 1..Len(events) :
           /\ events[i][1] = "MarketResolved"
           /\ events[i][3] = dispatched.market_id[1]

\* C4: for every identifier that is not a key of Markets, resolve_market(id)
\* fails with MarketDoesNotExist, creates no record and leaves Markets,
\* MarketCount, the ledger and the events unchanged.
C4_DoesNotExist ==
    [][(/\ CallBy("resolve_market")
        /\ dispatched'.market_id[1] \notin DOMAIN Markets)
       => /\ dispatched'.result = ModuleError("MarketDoesNotExist")
          /\ DOMAIN Markets' = DOMAIN Markets
          /\ StoreAndLedgerUnchanged]_vars

\* C4's case: resolve_market refused for an identifier absent from a store
\* that holds other records.
C4_Witness ==
    /\ dispatched.call = "resolve_market"
    /\ IsSigned(dispatched.origin)
    /\ dispatched.result = ModuleError("MarketDoesNotExist")
    /\ dispatched.market_id[1] \notin DOMAIN Markets
    /\ DOMAIN Markets # {}

\* C5: when the caller's free balance is below MarketCreationDeposit,
\* create_market fails with this pallet's InsufficientFunds error and leaves
\* Markets, MarketCount, every balance and the events unchanged.
C5_InsufficientFunds ==
    [][(/\ CallBy("create_market")
        /\ free_balance[dispatched'.origin[2]] < MarketCreationDeposit)
       => /\ dispatched'.result = ModuleError("InsufficientFunds")
          /\ StoreAndLedgerUnchanged]_vars

\* C6: in every state, every record in Markets has resolution_block set if and
\* only if its status is Resolved.
C6_ResolutionBlockIffResolved ==
    \A id \in DOMAIN Markets :
        is_some(Markets[id].resolution_block) <=> Markets[id].status = "Resolved"

\* C6's case: a market that resolve_market has just resolved, beside the call's
\* block number in its resolution_block.
C6_Witness ==
    /\ dispatched.call = "resolve_market"
    /\ dispatched.result = Ok
    /\ Markets[dispatched.market_id[1]].status = "Resolved"
    /\ Markets[dispatched.market_id[1]].resolution_block = Some(block_number)

\* The edges of the lifecycle: Created to Active, Active to Resolved, and from
\* either to Cancelled.
LifecycleEdge(old, new) ==
    \/ old = "Created" /\ new = "Active"
    \/ old = "Active" /\ new = "Resolved"
    \/ old \in {"Created", "Active"} /\ new = "Cancelled"

\* C7: for every market id, across any sequence of create_market and
\* resolve_market calls, every change of the status stored under the id follows
\* an edge of the lifecycle, so the status never reverts to an earlier value.
C7_StatusFollowsLifecycle ==
    [][\A id \in DOMAIN Markets :
           /\ id \in DOMAIN Markets'
           /\ Markets'[id].status # Markets[id].status =>
                  LifecycleEdge(Markets[id].status, Markets'[id].status)]_vars

\* C7's case: two create_market calls of one block have written the same id
\* (the second replaced the record of the first), and a resolve_market on a
\* stored record has been refused.
C7_Witness ==
    /\ \E i, j \in 1..Len(events) :
           /\ i < j
           /\ events[i] = events[j]
           /\ events[i][1] = "MarketCreated"
           /\ Markets[events[i][3]].status = "Created"
    /\ dispatched.call = "resolve_market"
    /\ dispatched.result = ModuleError("MarketNotResolvable")

\* The tuple a stored record was created with.
TupleOf(market) ==
    <<market.creation_block, market.creator, market.market_type>>

\* C8: a successful create_market leaves under its identifier the record the
\* call built (creator = caller, the given market_type, creation_block = the
\* current block); every record stored before with a different (block,
\* creator, market_type) tuple has a different identifier and is unchanged.
C8_DistinctTuplesDistinctIds ==
    [][(CallBy("create_market") /\ dispatched'.result = Ok) =>
         LET who == dispatched'.origin[2]
             t == dispatched'.market_type[1]
             id == dispatched'.market_id[1]
         IN
         /\ id \in DOMAIN Markets'
         /\ Markets'[id].id = id
         /\ Markets'[id].creator = who
         /\ Markets'[id].market_type = t
         /\ Markets'[id].creation_block = block_number
         /\ \A k \in DOMAIN Markets :
                TupleOf(Markets[k]) # <<block_number, who, t>> =>
                    /\ k # id
                    /\ Markets'[k] = Markets[k]]_vars

\* C8's case: three markets created with pairwise distinct tuples, all stored.
C8_Witness ==
    /\ dispatched.call = "create_market"
    /\ dispatched.result = Ok
    /\ Cardinality(DOMAIN Markets) = 3
    /\ Cardinality({TupleOf(Markets[k]) : k \in DOMAIN Markets}) = 3

\* C9 as stated: this pallet's calls take a market from Created to Resolved,
\* that is, resolve_market on a market in status Created leaves it Resolved.
C9_CreatedToResolved ==
    [][(/\ CallBy("resolve_market")
        /\ dispatched'.market_id[1] \in DOMAIN Markets
        /\ Markets[dispatched'.market_id[1]].status = "Created")
       => Markets'[dispatched'.market_id[1]].status = "Resolved"]_vars

\* C9 amended: starting from the empty store, create_market and resolve_market
\* never take a market out of Created: every stored record is Created in every
\* reachable state and no resolve_market call returns Ok.
C9_NeverLeavesCreated ==
    /\ \A id \in DOMAIN Markets : Markets[id].status = "Created"
    /\ dispatched.call = "resolve_market" => dispatched.result # Ok

\* C9's case: resolve_market by a signed caller on a stored market in status
\* Created, refused.
C9_Witness ==
    /\ dispatched.call = "resolve_market"
    /\ IsSigned(dispatched.origin)
    /\ dispatched.market_id[1] \in DOMAIN Markets
    /\ Markets[dispatched.market_id[1]].status = "Created"
    /\ dispatched.result = ModuleError("MarketNotResolvable")

\* C10: a successful create_market by caller A at block b with type t leaves
\* under the derived id the record (id, A, t, Created, 0, b, None) and deposits
\* exactly one event, MarketCreated(A, id).
C10_CreateEffect ==
    [][(CallBy("create_market") /\ dispatched'.result = Ok) =>
         LET who == dispatched'.origin[2]
             t == dispatched'.market_type[1]
             id == dispatched'.market_id[1]
         IN
         /\ id = MarketId(block_number, who, t)
         /\ id \in DOMAIN Markets'
         /\ Markets'[id] = [id               |-> id,
                            creator          |-> who,
                            market_type      |-> t,
                            status           |-> "Created",
                            total_liquidity  |-> 0,
                            creation_block   |-> block_number,
                            resolution_block |-> None]
         /\ events' = events \o <<<<"MarketCreated", who, id>>>>]_vars

\* C10's case: a create_market that returned Ok in a block after the first.
C10_Witness ==
    /\ dispatched.call = "create_market"
    /\ dispatched.result = Ok
    /\ block_number > 1
    /\ Markets[dispatched.market_id[1]].creation_block = block_number
    /\ events[Len(events)] =
           <<"MarketCreated", dispatched.origin[2], dispatched.market_id[1]>>

\* C11: resolve_market(id) by a caller succeeds if and only if a record exists
\* under id with status exactly Active; on success the record's status becomes
\* Resolved, its resolution_block Some(the block number at the call), and
\* exactly one event, MarketResolved(caller, id), is deposited.
C11_ResolveEffect ==
    [][CallBy("resolve_market") =>
         LET who == dispatched'.origin[2]
             id == dispatched'.market_id[1]
         IN
         /\ dispatched'.result = Ok <=>
                (id \in DOMAIN Markets /\ Markets[id].status = "Active")
         /\ dispatched'.result = Ok =>
                /\ Markets'[id].status = "Resolved"
                /\ Markets'[id].resolution_block = Some(block_number)
                /\ events' = events \o <<<<"MarketResolved", who, id>>>>]_vars

\* C11's case: an Active market created in block 1, resolved in a later block
\* by an account other than its creator.
C11_Witness ==
    /\ dispatched.call = "resolve_market"
    /\ dispatched.result = Ok
    /\ block_number > 1
    /\ Markets[dispatched.market_id[1]].creation_block = 1
    /\ Markets[dispatched.market_id[1]].creator # dispatched.origin[2]
    /\ Markets[dispatched.market_id[1]].resolution_block = Some(block_number)

\* The number of create_market calls by account a that have returned Ok.
SuccessfulCreationsBy(a) ==
    Cardinality({i \in 1..Len(events) :
                     events[i][1] = "MarketCreated" /\ events[i][2] = a})

\* C12: every successful create_market moves exactly MarketCreationDeposit
\* from the caller's free balance to the caller's reserved balance and touches
\* no other account, also when it collides with a stored id; resolve_market
\* changes no balance; no step lowers a reserved balance; so in every state
\* reserved(a) = MarketCreationDeposit * (successful create_market calls by a).
C12_DepositPerCreation ==
    /\ [](\A a \in AccountId :
              reserved_balance[a] =
                  MarketCreationDeposit * SuccessfulCreationsBy(a))
    /\ [][/\ (CallBy("create_market") /\ dispatched'.result = Ok) =>
                 LET who == dispatched'.origin[2] IN
                 /\ free_balance' =
                        [free_balance EXCEPT ![who] = @ - MarketCreationDeposit]
                 /\ reserved_balance' =
                        [reserved_balance EXCEPT
                             ![who] = @ + MarketCreationDeposit]
          /\ dispatched'.call = "resolve_market" =>
                 UNCHANGED <<free_balance, reserved_balance>>
          /\ \A a \in AccountId : reserved_balance'[a] >= reserved_balance[a]
         ]_vars

\* C12's case: a create_market that returned Ok on an id already stored (the
\* deposit is reserved a second time for the one record), and a market
\* resolved.
C12_Witness ==
    /\ \E i, j \in 1..Len(events) :
           /\ i < j
           /\ events[i] = events[j]
           /\ events[i][1] = "MarketCreated"
           /\ reserved_balance[events[i][2]] >= 2 * MarketCreationDeposit
    /\ \E i \in 1..Len(events) : events[i][1] = "MarketResolved"

C15_CountNonDecreasing == [][market_count' >= market_count]_vars

\* C15's case: markets created in two blocks, a market resolved, and a call
\* that failed.
C15_Witness ==
    /\ dispatched.call # "none"
    /\ dispatched.result # Ok
    /\ \E i, j \in 1..Len(events) :
           /\ events[i][1] = "MarketCreated"
           /\ events[j][1] = "MarketCreated"
           /\ events[i][3] \in DOMAIN Markets
           /\ events[j][3] \in DOMAIN Markets
           /\ Markets[events[i][3]].creation_block
                  < Markets[events[j][3]].creation_block
    /\ \E i \in 1..Len(events) : events[i][1] = "MarketResolved"

\* C16: no operation deletes a market: an identifier that is a key of Markets
\* is a key in every later state, so the set of stored identifiers only grows.
C16_NoDeletion == [][DOMAIN Markets \subseteq DOMAIN Markets']_vars

\* C16's case: two stored markets after a resolve_market that returned Ok and
\* wrote one of them back.
C16_Witness ==
    /\ dispatched.call = "resolve_market"
    /\ dispatched.result = Ok
    /\ Cardinality(DOMAIN Markets) >= 2

\* C17: after creation, status and resolution_block are the only fields of a
\* stored record that a step changes: its id, creator, market_type,
\* total_liquidity and creation_block stay the same; and a successful
\* resolve_market(id) leaves every other record and MarketCount unchanged.
C17_OnlyStatusChanges ==
    [][/\ \A id \in DOMAIN Markets :
              /\ id \in DOMAIN Markets'
              /\ Markets'[id].id = Markets[id].id
              /\ Markets'[id].creator = Markets[id].creator
              /\ Markets'[id].market_type = Markets[id].market_type
              /\ Markets'[id].total_liquidity = Markets[id].total_liquidity
              /\ Markets'[id].creation_block = Markets[id].creation_block
       /\ (dispatched'.call = "resolve_market" /\ dispatched'.result = Ok) =>
              /\ \A k \in DOMAIN Markets \ {dispatched'.market_id[1]} :
                     Markets'[k] = Markets[k]
              /\ DOMAIN Markets' = DOMAIN Markets
              /\ MarketCount' = MarketCount]_vars

\* C17's case: a market created in block 1 and resolved in a later block,
\* beside another stored market.
C17_Witness ==
    /\ dispatched.call = "resolve_market"
    /\ dispatched.result = Ok
    /\ block_number > 1
    /\ Markets[dispatched.market_id[1]].creation_block = 1
    /\ Markets[dispatched.market_id[1]].status = "Resolved"
    /\ \E k \in DOMAIN Markets : k # dispatched.market_id[1]

\* C18: in every state every key of Markets maps to a record whose id field is
\* that key, and the key is the digest of the encoding of the record's own
\* (creation_block, creator, market_type); hence the store holds at most one
\* record per (block, creator, market_type) tuple.
C18_KeyIsRecordId ==
    /\ \A k \in DOMAIN Markets :
           /\ Markets[k].id = k
           /\ k = Hashing(Encode(Markets[k].creation_block, Markets[k].creator,
                                 Markets[k].market_type))
    /\ \A k1, k2 \in DOMAIN Markets :
           TupleOf(Markets[k1]) = TupleOf(Markets[k2]) => k1 = k2

\* C18's case: markets of both accounts stored, one of them written twice by
\* create_market calls with the same tuple.
C18_Witness ==
    /\ \A a \in AccountId : \E k \in DOMAIN Markets : Markets[k].creator = a
    /\ \E i, j \in 1..Len(events) :
           i < j /\ events[i] = events[j] /\ events[i][1] = "MarketCreated"

\* C19: the outcome of resolve_market(id) does not depend on who calls it: for
\* any two signed callers run from the same state the call returns the same
\* result and leaves the same Markets, MarketCount and ledger; the events
\* differ at most in the account named in the MarketResolved event.
C19_CallerIndependent ==
    \A id \in Hash : \A a, b \in AccountId :
        LET oa == resolve_market_outcome(Signed(a), id)
            ob == resolve_market_outcome(Signed(b), id)
        IN
        /\ oa.result = ob.result
        /\ oa.Markets = ob.Markets
        /\ oa.MarketCount = ob.MarketCount
        /\ oa.free_balance = ob.free_balance
        /\ oa.reserved_balance = ob.reserved_balance
        /\ Len(oa.events) = Len(ob.events)
        /\ \A i \in 1..Len(oa.events) :
               IF i <= Len(events)
               THEN oa.events[i] = ob.events[i]
               ELSE /\ oa.events[i] = <<"MarketResolved", a, id>>
                    /\ ob.events[i] = <<"MarketResolved", b, id>>

\* C19's case: after a resolve_market call, a stored market that its creator
\* and the other account can both resolve, with the same store afterwards and
\* event logs that name different accounts.
C19_Witness ==
    /\ dispatched.call = "resolve_market"
    /\ \E id \in DOMAIN Markets :
           LET oa == resolve_market_outcome(Signed("A"), id)
               ob == resolve_market_outcome(Signed("B"), id)
           IN
           /\ oa.result = Ok
           /\ ob.result = Ok
           /\ oa.Markets = ob.Markets
           /\ oa.Markets # Markets
           /\ oa.events # ob.events

====
